---- MODULE Spec2Model ----
(***************************************************************************)
(* Hook lifecycle of willhook-rs: HookBuilder::build, Hook::try_recv and   *)
(* the release of a Hook (src/src/hook.rs, src/src/lib.rs), over the       *)
(* session slot, the listener threads and the shared event channel of the  *)
(* module hook::inner.                                                     *)
(***************************************************************************)
EXTENDS Integers, Sequences, FiniteSets, TLC

\* Number of build()/Hook instances that may be in progress concurrently.
NumBuilders == 2
\* Number of input events the OS raises over a whole behaviour.
MaxEvents == 2

Builders == 1..NumBuilders

\* The two hook categories: the two fields of HookBuilder and of Hook.
Category == {"Keyboard", "Mouse"}

\* pub enum KeyCode { Down, Up }
KeyCode == {"Down", "Up"}

VARIABLES
    occupied,   \* the session slot of hook::inner: TRUE while a listener token holds it
    pc,         \* pc[b]: position of builder/handle b in build(), in its life, in its drop
    builder,    \* builder[b]: the HookBuilder value b's build() was called on
    kb_hook,    \* kb_hook[b]: kb_hook.is_some(), then Hook::_keyboard_hook.is_some()
    m_hook,     \* m_hook[b]: m_hook.is_some(), then Hook::_mouse_hook.is_some()
    thread,     \* thread[b][c]: state of the listener thread started by b for category c
    installed,  \* installed[b][c]: the OS hook registered by that thread is installed
    quit,       \* quit[b][c]: a shutdown message is posted to that thread's queue
    channel,    \* the process-wide event channel (FIFO of events)
    raised,     \* history: the KeyCodes in the order the OS raised them
    received,   \* history: the KeyCodes in the order try_recv returned them
    returned,   \* the call that returned in the step that led to this state, and
                \* what it returned (NoReturn when that step returned from no call)
    result,     \* history: what b's build() returned ("-": nothing that counts), for
                \* the builds with a request since the last round began; a round
                \* begins with a build() called while no build runs and no Hook exists
    regFailed,  \* history: categories whose OS registration failed in b's build()
    clean,      \* history: no registration failed and no drop began in this round
    raced,      \* history: two build() calls of this round overlapped (while clean)
    logged      \* history: an uninstall call failed in this round (the anomaly log)

vars == <<occupied, pc, builder, kb_hook, m_hook, thread, installed, quit,
          channel, raised, received, returned, result, regFailed, clean, raced,
          logged>>

----------------------------------------------------------------------------
(* HookBuilder *)

\* HookBuilder::new()
HookBuilder_new == [mouse |-> FALSE, keyboard |-> FALSE]

\* HookBuilder::with_mouse(self)
with_mouse(self) == [self EXCEPT !.mouse = TRUE]

\* HookBuilder::with_keyboard(self)
with_keyboard(self) == [self EXCEPT !.keyboard = TRUE]

\* lib.rs: the three entry points, as the builder each of them builds.
keyboard_hook == with_keyboard(HookBuilder_new)
mouse_hook == with_mouse(HookBuilder_new)
willhook == with_mouse(with_keyboard(HookBuilder_new))

\* Every builder build() can be called on.
BuilderValues == {HookBuilder_new, keyboard_hook, mouse_hook, willhook}

\* Slip: the check of the request is left out.
NothingRequestedUnchecked(self) == FALSE

\* build(): if !self.keyboard && !self.mouse { return None }
NothingRequested(self) == ~self.keyboard /\ ~self.mouse

\* Slip: the keyboard listener is set up whatever was requested.
WantsKeyboardAlways(self) == TRUE

\* build(): let kb_hook = if self.keyboard { setup_keyboard_hook() } else { None }
WantsKeyboard(self) == self.keyboard

\* build(): let m_hook = if self.mouse { setup_mouse_hook() } else { None }
WantsMouse(self) == self.mouse

\* Slip: a Hook is returned whatever the two setups returned.
BuildResultAlwaysSome(kb, m) == "Some"

\* Slip: || for &&, a Hook is returned only when both setups returned a token.
BuildResultBothNeeded(kb, m) == IF ~kb \/ ~m THEN "None" ELSE "Some"

\* Slip: only kb_hook is looked at.
BuildResultKeyboardOnly(kb, m) == IF ~kb THEN "None" ELSE "Some"

\* build(): if kb_hook.is_none() && m_hook.is_none() { None } else { Some(Hook {..}) }
BuildResult(kb, m) == IF ~kb /\ ~m THEN "None" ELSE "Some"

\* The categories a builder requests.
Requested(self) ==
    (IF self.keyboard THEN {"Keyboard"} ELSE {}) \cup (IF self.mouse THEN {"Mouse"} ELSE {})

----------------------------------------------------------------------------
(* hook::inner: session slot, listener, channel *)

\* try_acquire: granted exactly when the slot is unoccupied.
TryAcquire(slot) == ~slot

\* The setup call has the answer of its listener thread.
Answered(t) == t \in {"loop", "exited"}

\* The join of stop(token) returns once the listener thread has exited.
Joined(t) == t = "exited"

\* InnerHook::try_recv on the global channel, whose sender is never dropped.
InnerTryRecv(ch) == IF ch = <<>> THEN "Empty" ELSE Head(ch).code

\* Slip: an empty channel is reported as a closed one.
Hook_try_recv_closed(ch) == IF ch = <<>> THEN "Closed" ELSE Head(ch).code

\* Slip: the newest event is reported instead of the oldest.
Hook_try_recv_newest(ch) == IF ch = <<>> THEN "Empty" ELSE ch[Len(ch)].code

\* Hook::try_recv(&self) { InnerHook::try_recv() }
Hook_try_recv(ch) == InnerTryRecv(ch)

\* An input event as it travels through the channel: the KeyCode the consumer
\* sees, and (history) whether a handle was released since it was sent.
Event(code) == [code |-> code, old |-> FALSE]

\* Slip: the channel is emptied when the Hook is dropped.
ChannelFreed(ch) == <<>>

\* lib.rs, lines 41-43: the channel is not freed when the Hook is dropped.
ChannelAfterDrop(ch) == ch

MarkOld(ch) == [i \in 1..Len(ch) |-> [ch[i] EXCEPT !.old = TRUE]]

\* The KeyCodes of a sequence of events.
Codes(ch) == [i \in 1..Len(ch) |-> ch[i].code]

\* The step returned from no call.
NoReturn ==
    [call |-> "-", by |-> 0, self |-> HookBuilder_new, ret |-> "-", failed |-> {},
     old |-> FALSE]

\* build() of b returns r; failed are the registrations that failed in it.
BuildReturned(b, self, r, failed) ==
    [call |-> "build", by |-> b, self |-> self, ret |-> r, failed |-> failed,
     old |-> FALSE]

\* try_recv() on b returns r, taken from the event ev when there is one.
RecvReturned(b, r, old) ==
    [call |-> "try_recv", by |-> b, self |-> HookBuilder_new, ret |-> r,
     failed |-> {}, old |-> old]

\* The drop of the Hook b, built from self, returns; failed are the
\* registrations that had failed when it was built.
DropReturned(b, self, failed) ==
    [call |-> "drop", by |-> b, self |-> self, ret |-> "-",
     failed |-> failed, old |-> FALSE]

----------------------------------------------------------------------------
Init ==
    /\ occupied = FALSE
    /\ pc = [b \in Builders |-> "free"]
    /\ builder = [b \in Builders |-> HookBuilder_new]
    /\ kb_hook = [b \in Builders |-> FALSE]
    /\ m_hook = [b \in Builders |-> FALSE]
    /\ thread = [b \in Builders |-> [c \in Category |-> "none"]]
    /\ installed = [b \in Builders |-> [c \in Category |-> FALSE]]
    /\ quit = [b \in Builders |-> [c \in Category |-> FALSE]]
    /\ channel = <<>>
    /\ raised = <<>>
    /\ received = <<>>
    /\ returned = NoReturn
    /\ result = [b \in Builders |-> "-"]
    /\ regFailed = [b \in Builders |-> {}]
    /\ clean = TRUE
    /\ raced = FALSE
    /\ logged = FALSE

\* b is inside build().
Building(b) == pc[b] \in {"kb_wait", "m", "m_wait"} \/ (pc[b] # "free" /\ result[b] = "-")

\* b is a live Hook: build() returned it and its drop has not returned.
Alive(b) == result[b] = "Some"

\* No build() is running and no Hook exists.
Quiescent == \A b \in Builders : pc[b] = "free"

\* Slip: the Hook does not own (and so never drops) the mouse token.
DropPcKeyboardOnly(kb, m) == IF kb THEN "join_kb" ELSE "free"

\* Where the drop of the tokens (kb, m) goes first: _keyboard_hook is declared,
\* and so dropped, before _mouse_hook (lines 21-24).
DropPc(kb, m) == IF kb THEN "join_kb" ELSE IF m THEN "join_m" ELSE "free"

\* Slip: the shutdown message is not posted (or is lost).
PostQuitLost(b, kb, m) == quit

\* InnerHook drop, first half of stop(token): the shutdown message is posted.
PostQuit(b, kb, m) ==
    IF kb THEN [quit EXCEPT ![b]["Keyboard"] = TRUE]
    ELSE IF m THEN [quit EXCEPT ![b]["Mouse"] = TRUE]
    ELSE quit

\* setup_keyboard_hook / setup_mouse_hook, first half: the session slot is asked
\* for, and on grant the listener thread of category c is spawned.
SetupBegin(b, c) ==
    /\ occupied' = TRUE
    /\ thread' = [thread EXCEPT ![b][c] = "started"]

\* The drop of the tokens (kb, m) that b holds begins; with no token left, the
\* call b is in returns: the drop of its Hook, or its build() with None.
Finish(b, kb, m) ==
    /\ pc' = [pc EXCEPT ![b] = DropPc(kb, m)]
    /\ IF DropPc(kb, m) = "free"
       THEN /\ returned' = IF Alive(b) THEN DropReturned(b, builder[b], regFailed[b])
                           ELSE BuildReturned(b, builder[b], "None", regFailed[b])
            /\ result' = [result EXCEPT ![b] = IF Alive(b) THEN "-" ELSE "None"]
            /\ builder' = [builder EXCEPT ![b] = HookBuilder_new]
            /\ regFailed' = [regFailed EXCEPT ![b] = {}]
       ELSE /\ returned' = NoReturn
            /\ UNCHANGED <<result, builder, regFailed>>

\* build(), lines 170-177, with the tokens kb and m. A None result drops the
\* tokens build() still holds.
BuildReturn(b, kb, m) ==
    IF BuildResult(kb, m) = "Some"
    THEN /\ pc' = [pc EXCEPT ![b] = "alive"]
         /\ result' = [result EXCEPT ![b] = "Some"]
         /\ returned' = BuildReturned(b, builder[b], "Some", regFailed[b])
         /\ UNCHANGED <<quit, builder, regFailed>>
    ELSE /\ Finish(b, kb, m)
         /\ quit' = PostQuit(b, kb, m)

\* A call of build(), up to the first step that depends on another thread:
\* the check of the request (lines 155-157), then the first half of the first
\* setup it calls (lines 159-168). A build() whose only setup is refused
\* returns at once (lines 170-177); one whose keyboard setup is refused goes on
\* to its mouse setup.
Build(b) ==
    /\ pc[b] = "free"
    /\ \E self \in BuilderValues :
          /\ clean' = (Quiescent \/ clean)
          /\ logged' = (~Quiescent /\ logged)
          /\ IF NothingRequested(self)
             THEN /\ returned' = BuildReturned(b, self, "None", {})
                  /\ result' = [x \in Builders |-> IF Quiescent THEN "-" ELSE result[x]]
                  /\ raced' = (~Quiescent /\ raced)
                  /\ UNCHANGED <<pc, builder, occupied, thread>>
             ELSE /\ raced' = (/\ ~Quiescent
                               /\ clean
                               /\ raced \/ \E x \in Builders : Building(x))
                  /\ IF TryAcquire(occupied) \/ (WantsKeyboard(self) /\ WantsMouse(self))
                     THEN /\ returned' = NoReturn
                          /\ builder' = [builder EXCEPT ![b] = self]
                          /\ result' = [x \in Builders |->
                                           IF Quiescent \/ x = b THEN "-" ELSE result[x]]
                          /\ IF ~TryAcquire(occupied)
                             THEN /\ pc' = [pc EXCEPT ![b] = "m"]
                                  /\ UNCHANGED <<occupied, thread>>
                             ELSE IF WantsKeyboard(self)
                             THEN /\ SetupBegin(b, "Keyboard")
                                  /\ pc' = [pc EXCEPT ![b] = "kb_wait"]
                             ELSE /\ SetupBegin(b, "Mouse")
                                  /\ pc' = [pc EXCEPT ![b] = "m_wait"]
                     ELSE /\ returned' = BuildReturned(b, self, BuildResult(FALSE, FALSE), {})
                          /\ result' = [x \in Builders |->
                                           IF x = b THEN BuildResult(FALSE, FALSE)
                                           ELSE IF Quiescent THEN "-" ELSE result[x]]
                          /\ IF BuildResult(FALSE, FALSE) = "Some"
                             THEN /\ pc' = [pc EXCEPT ![b] = "alive"]
                                  /\ builder' = [builder EXCEPT ![b] = self]
                             ELSE UNCHANGED <<pc, builder>>
                          /\ UNCHANGED <<occupied, thread>>
    /\ UNCHANGED <<kb_hook, m_hook, installed, quit, channel, raised, received,
                   regFailed>>

\* The listener thread registers its OS hook and enters the message loop.
RegisterOk(b, c) ==
    /\ thread[b][c] = "started"
    /\ thread' = [thread EXCEPT ![b][c] = "loop"]
    /\ installed' = [installed EXCEPT ![b][c] = TRUE]
    /\ returned' = NoReturn
    /\ UNCHANGED <<occupied, pc, builder, kb_hook, m_hook, quit, channel, raised,
                   received, result, regFailed, clean, raced, logged>>

\* The OS refuses the registration: the thread reports the failure and exits.
RegisterFail(b, c) ==
    /\ thread[b][c] = "started"
    /\ thread' = [thread EXCEPT ![b][c] = "exited"]
    /\ regFailed' = [regFailed EXCEPT ![b] = @ \cup {c}]
    /\ clean' = FALSE
    /\ raced' = FALSE
    /\ returned' = NoReturn
    /\ UNCHANGED <<occupied, pc, builder, kb_hook, m_hook, installed, quit, channel,
                   raised, received, result, logged>>

\* setup_*_hook, second half: a registered listener becomes the token that is
\* returned; a failed registration gives the slot back and returns None.
SetupEnd(b, c) ==
    /\ Answered(thread[b][c])
    /\ IF thread[b][c] = "loop"
       THEN UNCHANGED <<occupied, thread>>
       ELSE /\ occupied' = FALSE
            /\ thread' = [thread EXCEPT ![b][c] = "none"]

\* build(), lines 159-163: setup_keyboard_hook() returns; with no mouse
\* requested build() then returns (lines 164-177).
KeyboardReady(b) ==
    /\ pc[b] = "kb_wait"
    /\ SetupEnd(b, "Keyboard")
    /\ kb_hook' = [kb_hook EXCEPT ![b] = (thread[b]["Keyboard"] = "loop")]
    /\ IF WantsMouse(builder[b])
       THEN /\ pc' = [pc EXCEPT ![b] = "m"]
            /\ returned' = NoReturn
            /\ UNCHANGED <<builder, quit, result, regFailed>>
       ELSE BuildReturn(b, thread[b]["Keyboard"] = "loop", FALSE)
    /\ UNCHANGED <<m_hook, installed, channel, raised, received, clean, raced,
                   logged>>

\* build(), lines 164-168, and lines 170-177 when no mouse listener is started.
SetupMouse(b) ==
    /\ pc[b] = "m"
    /\ IF WantsMouse(builder[b]) /\ TryAcquire(occupied)
       THEN /\ SetupBegin(b, "Mouse")
            /\ pc' = [pc EXCEPT ![b] = "m_wait"]
            /\ returned' = NoReturn
            /\ UNCHANGED <<quit, result, builder, regFailed>>
       ELSE /\ BuildReturn(b, kb_hook[b], FALSE)
            /\ UNCHANGED <<occupied, thread>>
    /\ UNCHANGED <<kb_hook, m_hook, installed, channel, raised, received, clean,
                   raced, logged>>

\* build(), lines 164-177: setup_mouse_hook() returns, then build() does.
MouseReady(b) ==
    /\ pc[b] = "m_wait"
    /\ SetupEnd(b, "Mouse")
    /\ m_hook' = [m_hook EXCEPT ![b] = (thread[b]["Mouse"] = "loop")]
    /\ BuildReturn(b, kb_hook[b], thread[b]["Mouse"] = "loop")
    /\ UNCHANGED <<kb_hook, installed, channel, raised, received, clean, raced,
                   logged>>

\* The OS raises an input event on a hooked listener thread; the callback
\* translates it and sends it into the channel.
Callback(b, c) ==
    /\ thread[b][c] = "loop"
    /\ installed[b][c]
    /\ Len(raised) < MaxEvents
    /\ \E code \in KeyCode :
          /\ channel' = Append(channel, Event(code))
          /\ raised' = Append(raised, code)
    /\ returned' = NoReturn
    /\ UNCHANGED <<occupied, pc, builder, kb_hook, m_hook, thread, installed, quit,
                   received, result, regFailed, clean, raced, logged>>

\* Hook::try_recv, lines 62-64.
TryRecv(b) ==
    /\ pc[b] = "alive"
    /\ returned' = RecvReturned(b, Hook_try_recv(channel),
                                channel # <<>> /\ Head(channel).old)
    /\ IF channel = <<>>
       THEN UNCHANGED <<channel, received>>
       ELSE /\ channel' = Tail(channel)
            /\ received' = Append(received, Hook_try_recv(channel))
    /\ UNCHANGED <<occupied, pc, builder, kb_hook, m_hook, thread, installed, quit,
                   raised, result, regFailed, clean, raced, logged>>

\* The Hook goes out of scope: its fields are dropped in declaration order
\* (lines 21-24), and the first token it owns is told to stop.
Drop(b) ==
    /\ pc[b] = "alive"
    /\ Finish(b, kb_hook[b], m_hook[b])
    /\ quit' = PostQuit(b, kb_hook[b], m_hook[b])
    /\ clean' = FALSE
    /\ raced' = FALSE
    /\ UNCHANGED <<occupied, kb_hook, m_hook, thread, installed, channel, raised,
                   received, logged>>

\* InnerHook drop, second half of stop(token) and the release of the slot the
\* token holds.
StopEnd(b, c) ==
    /\ Joined(thread[b][c])
    /\ thread' = [thread EXCEPT ![b][c] = IF @ = "exited" THEN "none" ELSE @]
    /\ occupied' = FALSE
    /\ channel' = MarkOld(ChannelAfterDrop(channel))

\* The drop of _keyboard_hook ends; the drop of _mouse_hook begins.
JoinKeyboard(b) ==
    /\ pc[b] = "join_kb"
    /\ StopEnd(b, "Keyboard")
    /\ kb_hook' = [kb_hook EXCEPT ![b] = FALSE]
    /\ Finish(b, FALSE, m_hook[b])
    /\ quit' = [PostQuit(b, FALSE, m_hook[b]) EXCEPT ![b]["Keyboard"] = FALSE]
    /\ UNCHANGED <<m_hook, installed, raised, received, clean, raced, logged>>

\* The drop of _mouse_hook ends, and with it the drop of the Hook.
JoinMouse(b) ==
    /\ pc[b] = "join_m"
    /\ StopEnd(b, "Mouse")
    /\ m_hook' = [m_hook EXCEPT ![b] = FALSE]
    /\ Finish(b, FALSE, FALSE)
    /\ quit' = [quit EXCEPT ![b]["Mouse"] = FALSE]
    /\ UNCHANGED <<kb_hook, installed, raised, received, clean, raced, logged>>

\* Slip: the listener thread leaves the message loop and returns without
\* uninstalling its hook.
UnhookForgotten(b, c) ==
    /\ thread[b][c] = "loop"
    /\ quit[b][c]
    /\ thread' = [thread EXCEPT ![b][c] = "unhooked"]
    /\ returned' = NoReturn
    /\ UNCHANGED <<occupied, pc, builder, kb_hook, m_hook, installed, quit, channel,
                   raised, received, result, regFailed, clean, raced, logged>>

\* The listener thread takes the shutdown message out of its queue, leaves the
\* message loop and uninstalls its hook.
Unhook(b, c) ==
    /\ thread[b][c] = "loop"
    /\ quit[b][c]
    /\ installed' = [installed EXCEPT ![b][c] = FALSE]
    /\ thread' = [thread EXCEPT ![b][c] = "unhooked"]
    /\ returned' = NoReturn
    /\ UNCHANGED <<occupied, pc, builder, kb_hook, m_hook, quit, channel, raised,
                   received, result, regFailed, clean, raced, logged>>

\* The listener thread returns; a hook it still owns ends with it (the hook is
\* tied to the thread that installed it).
Exit(b, c) ==
    /\ thread[b][c] = "unhooked"
    /\ thread' = [thread EXCEPT ![b][c] = "exited"]
    /\ installed' = [installed EXCEPT ![b][c] = FALSE]
    /\ returned' = NoReturn
    /\ UNCHANGED <<occupied, pc, builder, kb_hook, m_hook, quit, channel, raised,
                   received, result, regFailed, clean, raced, logged>>

Next ==
    \/ \E b \in Builders :
          \/ Build(b)
          \/ KeyboardReady(b)
          \/ SetupMouse(b)
          \/ MouseReady(b)
          \/ TryRecv(b)
          \/ Drop(b)
          \/ JoinKeyboard(b)
          \/ JoinMouse(b)
    \/ \E b \in Builders, c \in Category :
          \/ RegisterOk(b, c)
          \/ RegisterFail(b, c)
          \/ Callback(b, c)
          \/ Unhook(b, c)
          \/ Exit(b, c)

Spec == Init /\ [][Next]_vars

\* Slip: a listener thread whose uninstall call failed gives up the shutdown
\* and stays in its message loop.
UninstallFailsHangs(b, c) ==
    /\ thread[b][c] = "loop"
    /\ quit[b][c]
    /\ quit' = [quit EXCEPT ![b][c] = FALSE]
    /\ returned' = NoReturn
    /\ UNCHANGED <<occupied, pc, builder, kb_hook, m_hook, thread, installed, channel,
                   raised, received, result, regFailed, clean, raced, logged>>

\* The listener thread takes the shutdown message and leaves the message loop,
\* but the OS fails its uninstall call: the hook is not uninstalled by it, and
\* the thread goes on to return all the same.
UninstallFails(b, c) ==
    /\ thread[b][c] = "loop"
    /\ quit[b][c]
    /\ thread' = [thread EXCEPT ![b][c] = "unhooked"]
    /\ logged' = TRUE
    /\ returned' = NoReturn
    /\ UNCHANGED <<occupied, pc, builder, kb_hook, m_hook, installed, quit, channel,
                   raised, received, result, regFailed, clean, raced>>

\* The steps of the program when the OS may fail an uninstall call.
NextUninstallFails ==
    \/ Next
    \/ \E b \in Builders, c \in Category : UninstallFails(b, c)

\* The scheduling the drop of a Hook relies on: a listener thread that has a
\* shutdown message in its queue gets to handle it and to return, and the
\* thread in the drop goes on once the join it waits in has returned.
Fairness ==
    /\ \A b \in Builders, c \in Category :
          WF_vars(Unhook(b, c)) /\ WF_vars(Exit(b, c))
    /\ \A b \in Builders : WF_vars(JoinKeyboard(b)) /\ WF_vars(JoinMouse(b))

SpecFair == Spec /\ Fairness

SpecUninstallFails == Init /\ [][NextUninstallFails]_vars /\ Fairness

----------------------------------------------------------------------------
(* Properties *)

\* A thread or a setup of b holds, or is about to give back, the session slot.
Holder(b) == \E c \in Category : thread[b][c] # "none"

\* b's build() ran with no other build() and no Hook around.
Alone(b) == \A x \in Builders \ {b} : pc[x] = "free" /\ result[x] = "-"

\* Nothing of b is left: no listener thread, no installed hook, no token.
NothingLeft(b) ==
    /\ \A c \in Category : thread[b][c] = "none" /\ ~installed[b][c]
    /\ ~kb_hook[b]
    /\ ~m_hook[b]

\* C1: at most one Hook is alive at any time, and a build() that returns while
\* a Hook is alive returns None, whatever category it requests.
OneHookAtATime ==
    /\ Cardinality({b \in Builders : Alive(b)}) <= 1
    /\ (returned.call = "build" /\ \E x \in Builders \ {returned.by} : Alive(x))
          => returned.ret = "None"

\* C1 witness: build() for the keyboard returned None while a mouse Hook lives.
RefusedOtherCategory ==
    /\ returned.call = "build"
    /\ returned.self = [mouse |-> FALSE, keyboard |-> TRUE]
    /\ returned.ret = "None"
    /\ \E x \in Builders \ {returned.by} :
          Alive(x) /\ builder[x] = [mouse |-> TRUE, keyboard |-> FALSE] /\ m_hook[x]

\* C2: when every drop has returned and no build() runs, the slot is
\* unoccupied; and a build() with a request, made with nothing else around and
\* with no registration failure, returns a Hook, also after earlier releases.
ReleaseThenReacquire ==
    /\ Quiescent => ~occupied
    /\ (/\ returned.call = "build"
        /\ Requested(returned.self) # {}
        /\ returned.failed = {}
        /\ clean
        /\ Alone(returned.by)) => returned.ret = "Some"

\* C2 witness: a keyboard Hook was built after an earlier Hook had been
\* released (an event of the released Hook is still in the channel).
ReacquiredAfterRelease ==
    /\ returned.call = "build"
    /\ returned.self = [mouse |-> FALSE, keyboard |-> TRUE]
    /\ returned.ret = "Some"
    /\ Alone(returned.by)
    /\ \E i \in 1..Len(channel) : channel[i].old

\* C3: a build() with nothing requested returns None and leaves the slot, the
\* listeners, the hooks, the tokens and the channel as they were.
EmptyRequestFails ==
    [][(returned'.call = "build" /\ Requested(returned'.self) = {})
          => /\ returned'.ret = "None"
             /\ UNCHANGED <<occupied, pc, kb_hook, m_hook, thread, installed, quit,
                            channel>>]_vars

\* C3 witness: build() with nothing requested returned None on an occupied slot.
EmptyRequestRefused ==
    /\ returned.call = "build"
    /\ Requested(returned.self) = {}
    /\ returned.ret = "None"
    /\ occupied

\* C4: when the drop of a Hook returns, every listener thread it started has
\* exited and is joined, and none of its OS hooks is installed.
SynchronousTeardown ==
    returned.call = "drop" =>
        \A c \in Category :
            thread[returned.by][c] = "none" /\ ~installed[returned.by][c]

\* C4 witness: the drop of a mouse Hook has returned.
MouseHookDropped ==
    /\ returned.call = "drop"
    /\ returned.self = [mouse |-> TRUE, keyboard |-> FALSE]

\* C5: a build() for keyboard and mouse, made with nothing else around and with
\* no registration failure, returns a Hook that owns both listeners.
BothListenersOwned ==
    (/\ returned.call = "build"
     /\ returned.self = [mouse |-> TRUE, keyboard |-> TRUE]
     /\ returned.failed = {}
     /\ clean
     /\ Alone(returned.by))
        => /\ returned.ret = "Some"
           /\ kb_hook[returned.by]
           /\ m_hook[returned.by]

\* C6: try_recv on a Hook returns Empty as long as no input event was raised.
FreshHookRecvEmpty ==
    (returned.call = "try_recv" /\ raised = <<>>) => returned.ret = "Empty"

\* C6 witness: try_recv returned Empty with no input raised.
RecvOnFreshHook ==
    /\ returned.call = "try_recv"
    /\ raised = <<>>
    /\ returned.ret = "Empty"

\* C7: the events try_recv returned, followed by those still in the channel,
\* are the events the OS raised, in the order raised.
FifoDelivery == raised = received \o Codes(channel)

\* C7 witness: Down then Up were raised and received as Down then Up.
DownThenUp ==
    /\ raised = <<"Down", "Up">>
    /\ received = <<"Down", "Up">>

\* C8: no step of a build() or of a drop changes the content of the channel,
\* and try_recv takes the oldest event of the channel, whichever Hook sent it.
CrossSessionCarryover ==
    [][/\ (pc' # pc \/ returned'.call \in {"build", "drop"})
             => Codes(channel') = Codes(channel)
       /\ (returned'.call = "try_recv" /\ channel # <<>>)
             => /\ returned'.ret = Head(channel).code
                /\ returned'.old = Head(channel).old
                /\ channel' = Tail(channel)]_vars

\* C8 witness: try_recv returned an event sent before an earlier Hook was
\* released.
OldEventReceived ==
    /\ returned.call = "try_recv"
    /\ returned.ret \in KeyCode
    /\ returned.old

\* C9: when build() calls with requests overlap, starting with no Hook alive
\* and with no registration failure, then once all have returned exactly one
\* of them has returned a Hook.
RaceFreeAcquisition ==
    (clean /\ raced /\ \A b \in Builders : ~Building(b))
        => /\ Cardinality({b \in Builders : result[b] = "Some"}) = 1
           /\ \A b \in Builders : result[b] = "Some" => pc[b] = "alive"

\* C9 witness: two overlapping calls have returned, one a Hook, one None.
RaceDecided ==
    /\ clean
    /\ raced
    /\ \A b \in Builders : ~Building(b)
    /\ \E b, x \in Builders : result[b] = "Some" /\ result[x] = "None"

\* C10: a build() in which the registration of every requested category
\* failed returns None, leaves no listener thread and no hook, and does not
\* hold the slot.
TotalRegistrationFailure ==
    (/\ returned.call = "build"
     /\ returned.failed # {}
     /\ returned.failed = Requested(returned.self))
        => /\ returned.ret = "None"
           /\ NothingLeft(returned.by)
           /\ occupied => \E x \in Builders \ {returned.by} : Holder(x)

\* C10 witness: both registrations of a build() for keyboard and mouse failed,
\* and the slot is unoccupied.
BothRegistrationsFailed ==
    /\ returned.call = "build"
    /\ returned.failed = {"Keyboard", "Mouse"}
    /\ returned.ret = "None"
    /\ ~occupied

\* The categories of the tokens b holds.
Owned(b) ==
    (IF kb_hook[b] THEN {"Keyboard"} ELSE {}) \cup (IF m_hook[b] THEN {"Mouse"} ELSE {})

Holders == {bc \in Builders \X Category : thread[bc[1]][bc[2]] # "none"}

\* b is in the drop of its Hook.
Dropping(b) == Alive(b) /\ pc[b] \in {"join_kb", "join_m"}

RefusedBuildNoEffect ==
    [][\A b \in Builders :
          (/\ pc[b] \in {"free", "kb_wait", "m", "m_wait"}
           /\ pc'[b] # pc[b] \/ (returned'.call = "build" /\ returned'.by = b)
           /\ \E x \in Builders \ {b} : pc[x] = "alive")
             => /\ occupied /\ occupied'
                /\ UNCHANGED <<thread, installed, kb_hook, m_hook, quit, channel>>
                /\ \A x \in Builders \ {b} : pc'[x] = pc[x] /\ result'[x] = result[x]
                /\ returned'.call = "build" => returned'.ret = "None" /\ pc'[b] = "free"
                /\ returned'.call \in {"build", "-"}]_vars

\* C14 witness: a build() for the keyboard returned None while a mouse Hook
\* is alive; the slot is occupied, the mouse listener is hooked and in its
\* loop, nothing of the refused builder is left and the channel holds the
\* event it held.
RefusedLeavesHookIntact ==
    /\ returned.call = "build"
    /\ returned.self = [mouse |-> FALSE, keyboard |-> TRUE]
    /\ returned.ret = "None"
    /\ NothingLeft(returned.by)
    /\ occupied
    /\ channel # <<>>
    /\ \E x \in Builders \ {returned.by} :
          /\ pc[x] = "alive"
          /\ Owned(x) = {"Mouse"}
          /\ thread[x]["Mouse"] = "loop"
          /\ installed[x]["Mouse"]

\* C15: try_recv can be called on a live Hook in every state (it never waits);
\* it returns a KeyCode exactly when the channel holds an event, and then the
\* oldest one, which it removes; it returns Empty exactly when the channel is
\* empty, which it leaves empty; it never returns Closed.
TryRecvClassification ==
    [][/\ \A b \in Builders : pc[b] = "alive" => ENABLED TryRecv(b)
       /\ returned'.call = "try_recv"
             => /\ returned'.ret \in KeyCode \cup {"Empty"}
                /\ returned'.ret \in KeyCode <=> channel # <<>>
                /\ returned'.ret = "Empty" <=> channel = <<>>
                /\ channel # <<>>
                      => returned'.ret = Head(channel).code /\ channel' = Tail(channel)
                /\ channel = <<>> => channel' = <<>>
                /\ UNCHANGED <<occupied, pc, thread, installed, kb_hook, m_hook>>]_vars

\* C15 witness: with every raised event received, try_recv on a Hook whose
\* listener is in its loop returned Empty.
DrainedThenEmpty ==
    /\ returned.call = "try_recv"
    /\ returned.ret = "Empty"
    /\ raised # <<>>
    /\ received = raised
    /\ \E c \in Category : thread[returned.by][c] = "loop" /\ installed[returned.by][c]

\* C16: under fair scheduling of the listener threads, every drop of a Hook
\* that has begun returns, with every listener of the Hook exited and joined,
\* no hook of it installed and the slot unoccupied.
TeardownTerminates ==
    \A b \in Builders :
        Dropping(b) ~> (/\ returned.call = "drop"
                        /\ returned.by = b
                        /\ NothingLeft(b)
                        /\ ~occupied)

\* C16 witness: the drop of a keyboard Hook has returned after its listener
\* had sent an event into the channel; nothing of the Hook is left.
KeyboardHookDropped ==
    /\ returned.call = "drop"
    /\ returned.self = [mouse |-> FALSE, keyboard |-> TRUE]
    /\ raised # <<>>
    /\ NothingLeft(returned.by)
    /\ ~occupied

\* C17: also when the OS fails uninstall calls, a listener thread that was
\* told to stop exits, every drop that has begun returns with its threads
\* joined, and the slot is occupied only while a build() runs or a Hook exists.
UninstallFailureContained ==
    /\ \A b \in Builders :
          Dropping(b) ~> (/\ returned.call = "drop"
                          /\ returned.by = b
                          /\ ~Holder(b)
                          /\ Owned(b) = {}
                          /\ ~occupied)
    /\ [](occupied => \E b \in Builders : pc[b] # "free")
    /\ [](Quiescent => Holders = {})

\* C17 witness: the drop of a Hook has returned although the uninstall call
\* of its listener had failed, with no other builder around; the thread is
\* joined and the slot is unoccupied.
DroppedDespiteUninstallFailure ==
    /\ returned.call = "drop"
    /\ logged
    /\ Alone(returned.by)
    /\ ~Holder(returned.by)
    /\ ~occupied

\* The categories b has a listener thread or an installed hook for.
Started(b) == {c \in Category : thread[b][c] # "none" \/ installed[b][c]}

\* C19: whatever the outcome of the registrations, build() starts listeners
\* and holds tokens only for categories its builder requests, and the Hook it
\* returns owns at least one category, each of them requested.
OwnedWithinRequest ==
    /\ \A b \in Builders :
          /\ Started(b) \subseteq Requested(builder[b])
          /\ Owned(b) \subseteq Requested(builder[b])
          /\ regFailed[b] \subseteq Requested(builder[b])
          /\ pc[b] = "alive" => Owned(b) # {}
    /\ (returned.call = "build" /\ returned.ret = "Some")
          => /\ Owned(returned.by) # {}
             /\ Owned(returned.by) \subseteq Requested(returned.self)
             /\ Started(returned.by) = Owned(returned.by)

\* C19 witness: build() for the mouse returned a Hook that owns the mouse
\* listener, and no keyboard listener was started.
MouseRequestMouseOnly ==
    /\ returned.call = "build"
    /\ returned.self = [mouse |-> TRUE, keyboard |-> FALSE]
    /\ returned.ret = "Some"
    /\ Owned(returned.by) = {"Mouse"}
    /\ Started(returned.by) = {"Mouse"}

====
